---- MODULE Spec2Model ----
(***************************************************************************)
(* Model of the intelligent-analysis core of backend/main.py: the section  *)
(* segmenter (extract_pdf_sections), the embedding index                   *)
(* (process_document_for_intelligence, delete_document) and the similarity *)
(* search (intelligent_analysis).                                          *)
(*                                                                         *)
(* Text is a sequence of one-character strings.  Font sizes are whole      *)
(* numbers of points; the float comparisons of the source are written as   *)
(* the equivalent integer comparisons.  A similarity is the cosine in      *)
(* hundredths.                                                             *)
(***************************************************************************)
EXTENDS Integers, Sequences, FiniteSets, TLC

VARIABLES
    uploads,               \* UPLOAD_DIR: file name -> PDF content
    pdf_documents,         \* list of PDFDocument records
    document_sections,     \* document id -> list of DocumentSection
    section_embeddings,    \* section id -> embedding vector
    ENHANCED_PDF_ANALYSIS, \* dependencies imported and semantic model loaded
    embed_failed,          \* history: (document id, section id) whose encode call raised
    response,              \* the HTTP response of the last request
    all_blocks,            \* segmenter run: the spans collected so far
    extracted,             \* segmenter run: the sections returned
    phase,                 \* segmenter run: "collect" or "done"
    call,                  \* direct call of a helper: its name and arguments
    result,                \* direct call of a helper: what it returned
    requests,              \* event loop: the requests clients have sent, each waiting or done
    running,               \* event loop: the handler coroutine it is executing
    passes                 \* history: the processing passes started, by document id

vars == <<uploads, pdf_documents, document_sections, section_embeddings,
          ENHANCED_PDF_ANALYSIS, embed_failed, response,
          all_blocks, extracted, phase, call, result,
          requests, running, passes>>

corpus_vars == <<uploads, pdf_documents, document_sections, section_embeddings,
                 ENHANCED_PDF_ANALYSIS, embed_failed, response>>

segmenter_vars == <<all_blocks, extracted, phase>>

call_vars == <<call, result>>

loop_vars == <<requests, running, passes>>

----------------------------------------------------------------------------
(* Characters and the str / re primitives the source uses.                 *)

UpperChars == <<"A","B","C","D","E","F","G","H","I","J","K","L","M",
                "N","O","P","Q","R","S","T","U","V","W","X","Y","Z">>

LowerChars == <<"a","b","c","d","e","f","g","h","i","j","k","l","m",
                "n","o","p","q","r","s","t","u","v","w","x","y","z">>

DigitChars == {"0","1","2","3","4","5","6","7","8","9"}

SpaceChars == {" ", "\t", "\n", "\r"}

\* the punctuation clean_text keeps besides \w and \s
KeptPunctuation == {"-", ".", ",", ";", ":", "!", "?", "(", ")"}

Range(s) == {s[i] : i \in 1..Len(s)}

IsUpper(c) == c \in Range(UpperChars)

IsLower(c) == c \in Range(LowerChars)

IsDigit(c) == c \in DigitChars

IsSpace(c) == c \in SpaceChars

\* regex \w
IsWordChar(c) == IsUpper(c) \/ IsLower(c) \/ IsDigit(c) \/ c = "_"

LowerChar(c) ==
    IF IsUpper(c) THEN LowerChars[CHOOSE i \in 1..26 : UpperChars[i] = c] ELSE c

\* str.lower()
Lower(t) == [i \in 1..Len(t) |-> LowerChar(t[i])]

\* str.strip()
Strip(t) ==
    LET keep == {i \in 1..Len(t) : ~IsSpace(t[i])}
    IN  IF keep = {} THEN <<>>
        ELSE LET lo == CHOOSE i \in keep : \A j \in keep : i <= j
                 hi == CHOOSE i \in keep : \A j \in keep : j <= i
             IN  SubSeq(t, lo, hi)

\* len(text.split()): the number of maximal runs of non-whitespace
NumTokens(t) ==
    Cardinality({i \in 1..Len(t) :
                    /\ ~IsSpace(t[i])
                    /\ (i = 1 \/ IsSpace(t[i-1]))})

StartsWith(t, w) == Len(t) >= Len(w) /\ SubSeq(t, 1, Len(w)) = w

\* the first position >= i that is not whitespace (Len(t)+1 when there is none)
SkipSpaces(t, i) ==
    LET rest == {j \in i..Len(t) : ~IsSpace(t[j])}
    IN  IF rest = {} THEN Len(t) + 1
        ELSE CHOOSE j \in rest : \A k \in rest : j <= k

\* re.match(r'^(w1|w2|...)\.?\s*[charset]+', t) for the prefix words ws, where
\* optdot tells which of the words may be followed by one '.'
MatchLabelNumber(t, ws, optdot, charset) ==
    \E w \in ws :
        /\ StartsWith(t, w)
        /\ \E dot \in {0, 1} :
              /\ dot = 1 => (w \in optdot /\ Len(t) > Len(w) /\ t[Len(w) + 1] = ".")
              /\ LET j == SkipSpaces(t, Len(w) + 1 + dot)
                 IN  j <= Len(t) /\ t[j] \in charset

\* re.match(r'^(w1|w2|...):\s*', t)
MatchLabelColon(t, ws) == \E w \in ws : StartsWith(t, w \o <<":">>)

W_page == <<"p","a","g","e">>

W_p == <<"p">>

W_version == <<"v","e","r","s","i","o","n">>

W_ver == <<"v","e","r">>

W_v == <<"v">>

W_date == <<"d","a","t","e">>

W_created == <<"c","r","e","a","t","e","d">>

W_modified == <<"m","o","d","i","f","i","e","d">>

W_contact == <<"c","o","n","t","a","c","t">>

W_email == <<"e","m","a","i","l">>

W_phone == <<"p","h","o","n","e">>

W_address == <<"a","d","d","r","e","s","s">>

W_website == <<"w","e","b","s","i","t","e">>

W_url == <<"u","r","l">>

is_generic_text(text) ==
    LET text_lower == Strip(Lower(text))
    IN  \/ Len(text_lower) < 3
        \/ MatchLabelNumber(text_lower, {W_page, W_p}, {W_p}, DigitChars)
        \/ MatchLabelNumber(text_lower, {W_version, W_ver, W_v}, {W_v}, DigitChars \cup {"."})
        \/ MatchLabelColon(text_lower, {W_date, W_created, W_modified})
        \/ MatchLabelColon(text_lower, {W_contact, W_email, W_phone, W_address,
                                        W_website, W_url})
        \/ (Len(text_lower) >= 1 /\ \A i \in 1..Len(text_lower) : IsDigit(text_lower[i]))
        \/ (Len(text_lower) = 1 /\ IsLower(text_lower[1]))
        \/ (Len(text_lower) >= 1 /\ \A i \in 1..Len(text_lower) : ~IsWordChar(text_lower[i]))

\* the elements of s at the indices in keep, in order
FilterSeq(s, keep) ==
    [k \in 1..Cardinality(keep) |->
        s[CHOOSE i \in keep : Cardinality({j \in keep : j <= i}) = k]]

\* re.sub(r'\s+', ' ', t): every maximal whitespace run becomes one space
CollapseSpaces(t) ==
    LET kept == FilterSeq(t, {i \in 1..Len(t) :
                                 ~IsSpace(t[i]) \/ i = 1 \/ ~IsSpace(t[i-1])})
    IN  [i \in 1..Len(kept) |-> IF IsSpace(kept[i]) THEN " " ELSE kept[i]]

clean_text(text) ==
    LET collapsed == CollapseSpaces(Strip(text))
    IN  [i \in 1..Len(collapsed) |->
            IF \/ IsWordChar(collapsed[i])
               \/ IsSpace(collapsed[i])
               \/ collapsed[i] \in KeptPunctuation
            THEN collapsed[i] ELSE " "]

\* " ".join(parts)
RECURSIVE JoinSpace(_)
JoinSpace(parts) ==
    IF parts = <<>> THEN <<>>
    ELSE IF Len(parts) = 1 THEN parts[1]
         ELSE parts[1] \o <<" ">> \o JoinSpace(Tail(parts))

----------------------------------------------------------------------------
(* The texts of the modelled spans and queries.                            *)

T_Introduction == <<"I","n","t","r","o","d","u","c","t","i","o","n">>

T_KeyFacts == <<"K","e","y"," ","F","a","c","t","s">>

T_Page2 == <<"P","a","g","e"," ","2">>

T_CostRisk == <<"c","o","s","t"," ","&"," ","r","i","s","k">>

T_RiskPays == <<"r","i","s","k"," ","n","e","v","e","r"," ","p","a","y","s">>

T_Risk == <<"r","i","s","k">>

T_AndRisk == <<"&"," ","r","i","s","k">>

----------------------------------------------------------------------------
(* Section segmenter.                                                      *)

\* Counter(font_sizes).most_common(1)[0][0]: the most frequent size, the
\* first-encountered one among equally frequent sizes
Occurrences(sizes, v) == Cardinality({i \in 1..Len(sizes) : sizes[i] = v})

FirstIndex(sizes, v) == CHOOSE i \in 1..Len(sizes) : sizes[i] = v /\ \A j \in 1..(i-1) : sizes[j] # v

MostCommon(sizes) ==
    CHOOSE v \in Range(sizes) :
        \A u \in Range(sizes) :
            \/ Occurrences(sizes, v) > Occurrences(sizes, u)
            \/ /\ Occurrences(sizes, v) = Occurrences(sizes, u)
               /\ FirstIndex(sizes, v) <= FirstIndex(sizes, u)

determine_heading_level_Above(font_size, body_size) ==
    IF font_size > 2 * body_size THEN "H1"
    ELSE IF 2 * font_size > 3 * body_size THEN "H2"
    ELSE IF 10 * font_size > 13 * body_size THEN "H3"
    ELSE "H4"

\* ratio = font_size / body_size against 2.0, 1.5 and 1.3
determine_heading_level(font_size, body_size) ==
    IF font_size >= 2 * body_size THEN "H1"
    ELSE IF 2 * font_size >= 3 * body_size THEN "H2"
    ELSE IF 10 * font_size >= 13 * body_size THEN "H3"
    ELSE "H4"

is_heading_OneToken(block, body_size) ==
    /\ 10 * block.font_size > 11 * body_size
    /\ NumTokens(block.text) >= 1

\* font_size > body_size * 1.1 and len(text.split()) >= 2
is_heading(block, body_size) ==
    /\ 10 * block.font_size > 11 * body_size
    /\ NumTokens(block.text) >= 2

\* current_section = None
NoSection == [id |-> <<0, 0>>, title |-> <<>>, content |-> <<>>, page |-> 0,
              level |-> "None", font_size |-> 0]

SectionId_PageOnly(section_id_counter, page) == <<1, page>>

\* f"section_{section_id_counter}_{page}": the pair of the two numbers
SectionId(section_id_counter, page) == <<section_id_counter, page>>

CloseSection_KeepEmpty(sections, current_section, section_content) ==
    IF current_section # NoSection
    THEN Append(sections, [current_section EXCEPT
                               !.content = Strip(JoinSpace(section_content))])
    ELSE sections

\* closing a section: it is appended only when it exists, fragments were
\* collected and their join is not empty
CloseSection(sections, current_section, section_content) ==
    IF current_section # NoSection /\ section_content # <<>>
    THEN LET content == Strip(JoinSpace(section_content))
         IN  IF content # <<>>
             THEN Append(sections, [current_section EXCEPT !.content = content])
             ELSE sections
    ELSE sections

\* the texts of the modelled spans
ModelTexts == {T_Introduction, T_KeyFacts, T_Page2, T_CostRisk, T_RiskPays, T_AndRisk}

\* is_generic_text and clean_text on the modelled texts, evaluated once
GenericText == [text \in ModelTexts |-> is_generic_text(text)]

CleanText == [text \in ModelTexts |-> clean_text(text)]

RECURSIVE SegmentLoop(_, _, _, _, _, _, _)
SegmentLoop(blocks, i, body_size, current_section, section_content, section_id_counter, sections) ==
    IF i > Len(blocks)
    THEN CloseSection(sections, current_section, section_content)
    ELSE LET block == blocks[i]
         IN  IF is_heading(block, body_size) /\ ~GenericText[block.text]
             THEN SegmentLoop(blocks, i + 1, body_size,
                    [id        |-> SectionId(section_id_counter + 1, block.page),
                     title     |-> CleanText[block.text],
                     content   |-> <<>>,
                     page      |-> block.page,
                     level     |-> determine_heading_level(block.font_size, body_size),
                     font_size |-> block.font_size],
                    <<>>,
                    section_id_counter + 1,
                    CloseSection(sections, current_section, section_content))
             ELSE SegmentLoop(blocks, i + 1, body_size, current_section,
                    IF ~GenericText[block.text]
                    THEN Append(section_content, CleanText[block.text])
                    ELSE section_content,
                    section_id_counter, sections)

\* the part of extract_pdf_sections after the spans are collected
SegmentBlocks(blocks) ==
    IF blocks = <<>> THEN <<>>
    ELSE SegmentLoop(blocks, 1,
                     MostCommon([i \in 1..Len(blocks) |-> blocks[i].font_size]),
                     NoSection, <<>>, 0, <<>>)

\* one entry of all_blocks (bbox and flags play no part in the segmentation)
Span(text, font_size, page) == [text |-> text, font_size |-> font_size, page |-> page]

\* a PDF file: whether fitz can open and read it, and the text spans in page
\* then visual order
Pdf(spans) == [readable |-> TRUE, spans |-> spans]

UnreadablePdf == [readable |-> FALSE, spans |-> <<>>]

\* any exception inside extract_pdf_sections is caught and [] is returned
extract_pdf_sections(pdf) ==
    IF ~pdf.readable THEN <<>> ELSE SegmentBlocks(pdf.spans)

----------------------------------------------------------------------------
(* Python containers.                                                      *)

\* a dict whose iteration order matters: the list of its items in insertion
\* order
DictKeys(d) == {d[i].key : i \in 1..Len(d)}

DictGet(d, k) == d[CHOOSE i \in 1..Len(d) : d[i].key = k].value

\* d[k] = v: an existing key keeps its place, a new key goes last
DictSet(d, k, v) ==
    IF k \in DictKeys(d)
    THEN [i \in 1..Len(d) |-> IF d[i].key = k THEN [key |-> k, value |-> v] ELSE d[i]]
    ELSE Append(d, [key |-> k, value |-> v])

RECURSIVE DictDel(_, _)
DictDel(d, k) ==
    IF d = <<>> THEN <<>>
    ELSE IF d[1].key = k THEN DictDel(Tail(d), k)
         ELSE <<d[1]>> \o DictDel(Tail(d), k)

\* dict.pop(k, None) for every k of ks
PopAll(f, ks) == [k \in DOMAIN f \ ks |-> f[k]]

Max(S) == CHOOSE x \in S : \A y \in S : y <= x

Min(S) == CHOOSE x \in S : \A y \in S : x <= y

----------------------------------------------------------------------------
(* File names and the uploads folder.                                      *)

\* the characters of the modelled file names in code-point order
CodePointOrder == <<".">> \o UpperChars \o LowerChars

Ord(c) == CHOOSE i \in 1..Len(CodePointOrder) : CodePointOrder[i] = c

\* a < b for str
RECURSIVE StrLess(_, _)
StrLess(a, b) ==
    IF b = <<>> THEN FALSE
    ELSE IF a = <<>> THEN TRUE
    ELSE IF a[1] = b[1] THEN StrLess(Tail(a), Tail(b))
    ELSE Ord(a[1]) < Ord(b[1])

EndsWith(t, w) == Len(t) >= Len(w) /\ SubSeq(t, Len(t) - Len(w) + 1, Len(t)) = w

\* filename.lower().endswith('.pdf')
IsPdfName(filename) == EndsWith(Lower(filename), <<".","p","d","f">>)

\* sorted(names)
RECURSIVE Sorted(_)
Sorted(names) ==
    IF names = {} THEN <<>>
    ELSE LET first == CHOOSE n \in names : \A m \in names \ {n} : StrLess(n, m)
         IN  <<first>> \o Sorted(names \ {first})

\* next((doc for doc in docs if doc.filename == filename), None)
HasDocNamed(docs, filename) == \E i \in 1..Len(docs) : docs[i].filename = filename

DocNamed(docs, filename) ==
    docs[Min({i \in 1..Len(docs) : docs[i].filename = filename})]

load_documents_from_uploads(files, existing_docs) ==
    LET sorted_files == Sorted({f \in files : IsPdfName(f)})
    IN  [i \in 1..Len(sorted_files) |->
            [id              |-> i,
             filename        |-> sorted_files[i],
             indexed_content |-> FALSE,
             upload_type     |-> IF HasDocNamed(existing_docs, sorted_files[i])
                                 THEN DocNamed(existing_docs, sorted_files[i]).upload_type
                                 ELSE "bulk"]]

----------------------------------------------------------------------------
(* The embedding model and cosine similarity.                              *)

Dot(a, b) == a[1]*b[1] + a[2]*b[2] + a[3]*b[3] + a[4]*b[4]

\* the Euclidean norm; the model's vectors have whole norms
Norm(a) == CHOOSE n \in 0..(Dot(a, a)) : n * n = Dot(a, a)

\* cosine_similarity(a, b)[0][0], in hundredths
cosine_similarity(a, b) == (100 * Dot(a, b)) \div (Norm(a) * Norm(b))

\* semantic_model.encode: a fixed function of the text (the same text always
\* gets the same vector)
C_CostRisk == clean_text(T_CostRisk)

semantic_model_encode(text) ==
    IF text = C_CostRisk THEN <<8, 6, 0, 0>>
    ELSE IF text = T_Introduction THEN <<3, 9, 3, 1>>
    ELSE IF text = T_RiskPays THEN <<5, 5, 5, 5>>
    ELSE IF text = T_Risk THEN <<10, 0, 0, 0>>
    ELSE <<0, 10, 0, 0>>

----------------------------------------------------------------------------
(* The document library: uploads, deletions, reloads and queries.          *)

MaxId == 2

F_a == <<"a",".","p","d","f">>

F_b == <<"b",".","p","d","f">>

F_notes == <<"n",".","t","x","t">>

FileNames == {F_a, F_b, F_notes}

UploadTypes == {"fresh", "bulk"}

\* one heading on page 1, its body and a page-number line
PdfA == Pdf(<<Span(T_KeyFacts, 24, 1), Span(T_CostRisk, 12, 1), Span(T_Page2, 12, 1)>>)

\* a heading on page 1 and a heading on page 2, each with its body
PdfB == Pdf(<<Span(T_KeyFacts, 24, 1), Span(T_RiskPays, 12, 1),
              Span(T_Page2, 12, 1),
              Span(T_KeyFacts, 24, 2), Span(T_Introduction, 12, 2)>>)

PdfPool == {PdfA, PdfB, UnreadablePdf}

SelectedTexts == {<<>>, T_Risk}

\* max_results: Optional[int] = 5
DefaultMaxResults == 5

NoneValue == [kind |-> "None", value |-> 0]

IntValue(n) == [kind |-> "int", value |-> n]

MaxNegativeResults == 1

MaxPositiveResults == 1

\* the values a request carries: null, the default of an omitted field, and
\* small integers of either sign
MaxResultsValues ==
    {NoneValue, IntValue(DefaultMaxResults)}
        \cup {IntValue(n) : n \in (0 - MaxNegativeResults)..MaxPositiveResults}

DocIds(docs) == {docs[i].id : i \in 1..Len(docs)}

HasDocWithId(docs, id) == \E i \in 1..Len(docs) : docs[i].id = id

DocWithId(docs, id) == docs[Min({i \in 1..Len(docs) : docs[i].id = id})]

SectionIds(sections) == {sections[i].id : i \in 1..Len(sections)}

\* the embeddings dict built by process_document_for_intelligence when the
\* encode calls of the sections at the indices in failed raise
NewEmbeddings(sections, failed) ==
    [id \in {sections[i].id : i \in (1..Len(sections)) \ failed} |->
        semantic_model_encode(
            sections[Max({i \in (1..Len(sections)) \ failed : sections[i].id = id})].content)]

\* section_embeddings.update(embeddings)
DictUpdate(f, g) == g @@ f

\* extract_pdf_sections on each file of the pool, evaluated once
ExtractedSections == [pdf \in PdfPool |-> extract_pdf_sections(pdf)]

process_document_for_intelligence(document_id, pdf, failed) ==
    LET sections == ExtractedSections[pdf]
    IN  /\ failed \subseteq 1..Len(sections)
        /\ document_sections' = DictSet(document_sections, document_id, sections)
        /\ section_embeddings' =
               DictUpdate(section_embeddings, NewEmbeddings(sections, failed))
        /\ embed_failed' =
               {e \in embed_failed : e[1] # document_id}
                   \cup {<<document_id, sections[i].id>> : i \in failed}

\* no helper is being called directly
NoCall == [fn |-> "none"]

\* the event loop is executing no handler
NoHandler == [fn |-> "none"]

\* no request was sent, nothing runs
LoopIdle ==
    /\ requests = <<>>
    /\ running = NoHandler
    /\ passes = {}

NoResult == [done |-> FALSE]

Returns(value) == [done |-> TRUE, value |-> value]

CorpusInit ==
    /\ \E files \in SUBSET {f \in FileNames : IsPdfName(f)} :
          /\ uploads \in [files -> PdfPool]
          /\ pdf_documents = load_documents_from_uploads(files, <<>>)
    /\ document_sections = <<>>
    /\ section_embeddings = <<>>
    /\ ENHANCED_PDF_ANALYSIS \in BOOLEAN
    /\ embed_failed = {}
    /\ response = [op |-> "none"]

AlreadyRegistered_Never(files, docs, filename) == FALSE

\* os.path.exists(file_path) and a document of that filename is in the list
AlreadyRegistered(files, docs, filename) ==
    filename \in DOMAIN files /\ HasDocNamed(docs, filename)

NewDocumentId_Max(docs) == Max(DocIds(docs) \cup {0})

\* max([doc.id for doc in pdf_documents], default=0) + 1
NewDocumentId(docs) == Max(DocIds(docs) \cup {0}) + 1

upload_pdf(filename, pdf, upload_type) ==
    IF ~IsPdfName(filename)
    THEN /\ response' = [op |-> "upload_pdf", status |-> 400]
         /\ UNCHANGED <<uploads, pdf_documents, document_sections,
                        section_embeddings, ENHANCED_PDF_ANALYSIS, embed_failed>>
    ELSE IF AlreadyRegistered(uploads, pdf_documents, filename)
    THEN LET k == Min({i \in 1..Len(pdf_documents) :
                          pdf_documents[i].filename = filename})
         IN  /\ pdf_documents' = [pdf_documents EXCEPT ![k].upload_type = upload_type]
             /\ response' = [op |-> "upload_pdf", status |-> 200]
             /\ UNCHANGED <<uploads, document_sections, section_embeddings,
                            ENHANCED_PDF_ANALYSIS, embed_failed>>
    ELSE LET new_id == NewDocumentId(pdf_documents)
         IN  /\ new_id <= MaxId
             /\ uploads' = (filename :> pdf) @@ uploads
             /\ pdf_documents' =
                    Append(pdf_documents,
                           [id              |-> new_id,
                            filename        |-> filename,
                            indexed_content |-> ENHANCED_PDF_ANALYSIS,
                            upload_type     |-> upload_type])
             /\ IF ENHANCED_PDF_ANALYSIS
                THEN \E failed \in SUBSET (1..Len(ExtractedSections[pdf])) :
                        process_document_for_intelligence(new_id, pdf, failed)
                ELSE UNCHANGED <<document_sections, section_embeddings, embed_failed>>
             /\ response' = [op |-> "upload_pdf", status |-> 200]
             /\ UNCHANGED ENHANCED_PDF_ANALYSIS

\* the file a client sends under a name
PdfOf(filename) == IF filename = F_a THEN PdfA ELSE PdfB

MaxBulkFiles == 1

\* the lists of files a bulk upload carries
BulkFileLists ==
    UNION {[1..n -> {[filename |-> f, pdf |-> PdfOf(f)] : f \in FileNames}] :
              n \in 0..MaxBulkFiles}

\* one turn of the loop of bulk_upload_pdfs on the library lib; failed holds
\* the sections of the file whose encode call raises
BulkFile(lib, file, failed) ==
    IF ~IsPdfName(file.filename) THEN lib
    ELSE IF AlreadyRegistered(lib.uploads, lib.pdf_documents, file.filename)
    THEN LET k == Min({i \in 1..Len(lib.pdf_documents) :
                          lib.pdf_documents[i].filename = file.filename})
         IN  [lib EXCEPT !.pdf_documents[k].upload_type = "bulk"]
    ELSE LET new_id == NewDocumentId(lib.pdf_documents)
             sections == ExtractedSections[file.pdf]
             kept == failed \cap (1..Len(sections))
             new_document == [id              |-> new_id,
                              filename        |-> file.filename,
                              indexed_content |-> ENHANCED_PDF_ANALYSIS,
                              upload_type     |-> "bulk"]
         IN  IF ENHANCED_PDF_ANALYSIS
             THEN [uploads            |-> (file.filename :> file.pdf) @@ lib.uploads,
                   pdf_documents      |-> Append(lib.pdf_documents, new_document),
                   document_sections  |-> DictSet(lib.document_sections, new_id, sections),
                   section_embeddings |->
                       DictUpdate(lib.section_embeddings, NewEmbeddings(sections, kept)),
                   embed_failed       |->
                       {e \in lib.embed_failed : e[1] # new_id}
                           \cup {<<new_id, sections[i].id>> : i \in kept}]
             ELSE [lib EXCEPT
                      !.uploads = (file.filename :> file.pdf) @@ lib.uploads,
                      !.pdf_documents = Append(lib.pdf_documents, new_document)]

RECURSIVE BulkLoop(_, _, _, _)
BulkLoop(lib, files, fails, i) ==
    IF i > Len(files) THEN lib
    ELSE BulkLoop(BulkFile(lib, files[i], fails[i]), files, fails, i + 1)

\* POST /api/bulk-upload
bulk_upload_pdfs(files, fails) ==
    LET lib == BulkLoop([uploads            |-> uploads,
                         pdf_documents      |-> pdf_documents,
                         document_sections  |-> document_sections,
                         section_embeddings |-> section_embeddings,
                         embed_failed       |-> embed_failed],
                        files, fails, 1)
    IN  /\ \A id \in DocIds(lib.pdf_documents) : id <= MaxId
        /\ uploads' = lib.uploads
        /\ pdf_documents' = lib.pdf_documents
        /\ document_sections' = lib.document_sections
        /\ section_embeddings' = lib.section_embeddings
        /\ embed_failed' = lib.embed_failed
        /\ response' = [op |-> "bulk_upload_pdfs", status |-> 200]
        /\ UNCHANGED ENHANCED_PDF_ANALYSIS

delete_document(document_id) ==
    IF HasDocWithId(pdf_documents, document_id)
    THEN LET k == Min({i \in 1..Len(pdf_documents) : pdf_documents[i].id = document_id})
             deleted_doc == pdf_documents[k]
         IN  /\ pdf_documents' = FilterSeq(pdf_documents, (1..Len(pdf_documents)) \ {k})
             /\ uploads' = [f \in DOMAIN uploads \ {deleted_doc.filename} |-> uploads[f]]
             /\ IF document_id \in DictKeys(document_sections)
                THEN /\ section_embeddings' =
                            PopAll(section_embeddings,
                                   SectionIds(DictGet(document_sections, document_id)))
                     /\ document_sections' = DictDel(document_sections, document_id)
                ELSE UNCHANGED <<document_sections, section_embeddings>>
             /\ embed_failed' = {e \in embed_failed : e[1] # document_id}
             /\ response' = [op |-> "delete_document", status |-> 200]
             /\ UNCHANGED ENHANCED_PDF_ANALYSIS
    ELSE /\ response' = [op |-> "delete_document", status |-> 404]
         /\ UNCHANGED <<uploads, pdf_documents, document_sections,
                        section_embeddings, ENHANCED_PDF_ANALYSIS, embed_failed>>

manual_reload ==
    /\ pdf_documents' = load_documents_from_uploads(DOMAIN uploads, pdf_documents)
    /\ response' = [op |-> "manual_reload", status |-> 200]
    /\ UNCHANGED <<uploads, document_sections, section_embeddings,
                   ENHANCED_PDF_ANALYSIS, embed_failed>>

\* GET /api/documents: the list is reloaded when the PDF files of the folder
\* are not the files of the documents in memory
get_documents ==
    LET current_files == {f \in DOMAIN uploads : IsPdfName(f)}
        memory_files == {pdf_documents[i].filename : i \in 1..Len(pdf_documents)}
    IN  /\ pdf_documents' =
               IF current_files # memory_files
               THEN load_documents_from_uploads(DOMAIN uploads, pdf_documents)
               ELSE pdf_documents
        /\ response' = [op |-> "get_documents", status |-> 200]
        /\ UNCHANGED <<uploads, document_sections, section_embeddings,
                       ENHANCED_PDF_ANALYSIS, embed_failed>>

\* GET /api/pdf/{filename}: a file that is missing from the folder takes its
\* document and the document's analysis data with it
serve_pdf(filename) ==
    IF filename \in DOMAIN uploads
    THEN /\ response' = [op |-> "serve_pdf", status |-> 200]
         /\ UNCHANGED <<uploads, pdf_documents, document_sections,
                        section_embeddings, ENHANCED_PDF_ANALYSIS, embed_failed>>
    ELSE /\ IF HasDocNamed(pdf_documents, filename)
            THEN LET k == Min({i \in 1..Len(pdf_documents) :
                                  pdf_documents[i].filename = filename})
                     doc_to_remove == pdf_documents[k]
                 IN  /\ pdf_documents' =
                            FilterSeq(pdf_documents, (1..Len(pdf_documents)) \ {k})
                     /\ IF doc_to_remove.id \in DictKeys(document_sections)
                        THEN /\ section_embeddings' =
                                    PopAll(section_embeddings,
                                           SectionIds(DictGet(document_sections,
                                                              doc_to_remove.id)))
                             /\ document_sections' =
                                    DictDel(document_sections, doc_to_remove.id)
                             /\ embed_failed' =
                                    {e \in embed_failed : e[1] # doc_to_remove.id}
                        ELSE UNCHANGED <<document_sections, section_embeddings,
                                         embed_failed>>
            ELSE UNCHANGED <<pdf_documents, document_sections, section_embeddings,
                             embed_failed>>
         /\ response' = [op |-> "serve_pdf", status |-> 404]
         /\ UNCHANGED <<uploads, ENHANCED_PDF_ANALYSIS>>

----------------------------------------------------------------------------
(* Snippets and their classification.                                      *)

IsTerminator(c) == c \in {".", "!", "?"}

\* the first position >= i holding a character of [.!?] (Len(t)+1 when none)
NextTerminator(t, i) ==
    LET hits == {j \in i..Len(t) : IsTerminator(t[j])}
    IN  IF hits = {} THEN Len(t) + 1 ELSE Min(hits)

\* the first position >= i not holding a character of [.!?]
SkipTerminators(t, i) ==
    LET rest == {j \in i..Len(t) : ~IsTerminator(t[j])}
    IN  IF rest = {} THEN Len(t) + 1 ELSE Min(rest)

\* re.split(r'[.!?]+', t), from position i on
RECURSIVE SplitSentences(_, _)
SplitSentences(t, i) ==
    LET j == NextTerminator(t, i)
    IN  IF j > Len(t) THEN <<SubSeq(t, i, Len(t))>>
        ELSE <<SubSeq(t, i, j - 1)>> \o SplitSentences(t, SkipTerminators(t, j))

RECURSIVE JoinWith(_, _)
JoinWith(parts, sep) ==
    IF parts = <<>> THEN <<>>
    ELSE IF Len(parts) = 1 THEN parts[1]
         ELSE parts[1] \o sep \o JoinWith(Tail(parts), sep)

MinSentenceLen == 10

MaxSnippetSentences == 4

FallbackSnippetLen == 150

Ellipsis == <<".", ".", ".">>

generate_snippet(content) ==
    IF content = <<>> THEN <<>>
    ELSE LET pieces == SplitSentences(content, 1)
             kept == {i \in 1..Len(pieces) :
                         Strip(pieces[i]) # <<>> /\ Len(Strip(pieces[i])) > MinSentenceLen}
             stripped == [i \in 1..Len(pieces) |-> Strip(pieces[i])]
             sentences == FilterSeq(stripped, kept)
         IN  IF sentences = <<>>
             THEN IF Len(content) > FallbackSnippetLen
                  THEN SubSeq(content, 1, FallbackSnippetLen) \o Ellipsis
                  ELSE content
             ELSE LET snippet ==
                          JoinWith(SubSeq(sentences, 1,
                                          Min({MaxSnippetSentences, Len(sentences)})),
                                   <<".", " ">>)
                  IN  IF IsTerminator(snippet[Len(snippet)]) THEN snippet
                      ELSE snippet \o <<".">>

\* re.search(r'\bword\b', t) for a word made of word characters
ContainsWord(t, word) ==
    \E i \in 1..(Len(t) - Len(word) + 1) :
        /\ SubSeq(t, i, i + Len(word) - 1) = word
        /\ (i = 1 \/ ~IsWordChar(t[i - 1]))
        /\ (i + Len(word) > Len(t) \/ ~IsWordChar(t[i + Len(word)]))

ContradictionWords ==
    { <<"h","o","w","e","v","e","r">>, <<"b","u","t">>,
      <<"a","l","t","h","o","u","g","h">>, <<"c","o","n","t","r","a","r","y">>,
      <<"n","o","t">>, <<"n","o">>, <<"n","e","v","e","r">>,
      <<"d","i","s","a","g","r","e","e">>,
      <<"w","r","o","n","g">>, <<"i","n","c","o","r","r","e","c","t">>,
      <<"m","i","s","t","a","k","e","n">>, <<"f","a","l","s","e">> }

SupportingAbove == 70

ContradictoryAbove == 40

\* the contradiction vocabulary looked at before the similarity
determine_snippet_type_VocabularyFirst(query_text, section_content, similarity) ==
    LET contradiction_score ==
            Cardinality({w \in ContradictionWords :
                            /\ ContainsWord(Lower(section_content), w)
                            /\ \E i \in 1..Len(query_text) : IsWordChar(query_text[i])})
    IN  IF contradiction_score > 0 /\ similarity > ContradictoryAbove
        THEN "contradictory"
        ELSE IF similarity > SupportingAbove THEN "supporting"
        ELSE "related"

determine_snippet_type(query_text, section_content, similarity) ==
    LET query_lower == Lower(query_text)
        content_lower == Lower(section_content)
        contradiction_score ==
            Cardinality({w \in ContradictionWords :
                            /\ ContainsWord(content_lower, w)
                            /\ \E i \in 1..Len(query_lower) : IsWordChar(query_lower[i])})
    IN  IF similarity > SupportingAbove THEN "supporting"
        ELSE IF contradiction_score > 0 /\ similarity > ContradictoryAbove
             THEN "contradictory"
        ELSE "related"

NoRelatedContent == "No related content found in your document library."

\* the ways generate_analysis_summary ends for a non-empty result: no API
\* key, an answer of the LLM, an unusable answer, an exception
SummaryPaths == {"template_no_key", "llm_text", "template_api_failed",
                 "template_exception"}

\* what the LLM may answer in candidates[0].content.parts[0].text; the
\* answer is returned as it comes
LlmTexts == {"", "Key themes and connections found"}

generate_analysis_summary(related_snippets, path, llm_text) ==
    IF related_snippets = <<>> THEN NoRelatedContent
    ELSE IF path = "llm_text" THEN llm_text
    ELSE path

----------------------------------------------------------------------------
(* Similarity search.                                                      *)

RelevanceFloor == 30

AnalysisUnavailable_Never == FALSE

\* if not ENHANCED_PDF_ANALYSIS: raise HTTPException(503)
AnalysisUnavailable == ~ENHANCED_PDF_ANALYSIS

SkipCurrentDocument_Never(doc_id, request) == FALSE

\* if doc_id == request.current_document_id: continue
SkipCurrentDocument(doc_id, request) == doc_id = request.current_document_id

IsRelevant_AtLeast(similarity) == similarity >= RelevanceFloor

\* if similarity > 0.3
IsRelevant(similarity) == similarity > RelevanceFloor

\* a cosine similarity in hundredths lies between -1.00 and 1.00
Similarities == (0 - 100)..100

\* the contents of the sections of the pool's files
SectionContents ==
    UNION {{ExtractedSections[pdf][i].content : i \in 1..Len(ExtractedSections[pdf])} :
              pdf \in PdfPool}

\* generate_snippet and determine_snippet_type on the values the library
\* holds, evaluated once
SnippetOf == [content \in SectionContents |-> generate_snippet(content)]

SnippetTypeOf ==
    [query_text \in SelectedTexts |->
        [content \in SectionContents |->
            [similarity \in Similarities |->
                determine_snippet_type(query_text, content, similarity)]]]

\* the snippets of one document's sections, in section order
RECURSIVE SnippetsOfSections(_, _, _, _, _)
SnippetsOfSections(sections, doc_id, doc, request, query_embedding) ==
    IF sections = <<>> THEN <<>>
    ELSE LET section == sections[1]
             rest == SnippetsOfSections(Tail(sections), doc_id, doc, request,
                                        query_embedding)
         IN  IF section.id \notin DOMAIN section_embeddings THEN rest
             ELSE LET similarity ==
                          cosine_similarity(query_embedding,
                                            section_embeddings[section.id])
                  IN  IF IsRelevant(similarity)
                      THEN <<[id               |-> section.id,
                              title            |-> section.title,
                              content          |-> SnippetOf[section.content],
                              document_id      |-> doc_id,
                              document_name    |-> doc.filename,
                              page             |-> section.page,
                              section_id       |-> section.id,
                              similarity_score |-> similarity,
                              snippet_type     |->
                                  SnippetTypeOf[request.selected_text][section.content][similarity]]>>
                           \o rest
                      ELSE rest

\* the loop over document_sections.items()
RECURSIVE CollectSnippets(_, _, _)
CollectSnippets(items, request, query_embedding) ==
    IF items = <<>> THEN <<>>
    ELSE LET doc_id == items[1].key
             rest == CollectSnippets(Tail(items), request, query_embedding)
         IN  IF SkipCurrentDocument(doc_id, request) THEN rest
             ELSE IF ~HasDocWithId(pdf_documents, doc_id) THEN rest
             ELSE SnippetsOfSections(items[1].value, doc_id,
                                     DocWithId(pdf_documents, doc_id),
                                     request, query_embedding) \o rest

\* list.sort(key=similarity_score, reverse=True): stable, highest first
RECURSIVE InsertByScore(_, _)
InsertByScore(sorted, x) ==
    IF sorted = <<>> THEN <<x>>
    ELSE IF sorted[1].similarity_score >= x.similarity_score
         THEN <<sorted[1]>> \o InsertByScore(Tail(sorted), x)
         ELSE <<x>> \o sorted

RECURSIVE SortByScore(_)
SortByScore(snippets) ==
    IF snippets = <<>> THEN <<>>
    ELSE InsertByScore(SortByScore(SubSeq(snippets, 1, Len(snippets) - 1)),
                       snippets[Len(snippets)])

\* lst[:n] for n an int or None
SliceTo(lst, n) ==
    IF n.kind = "None" THEN lst
    ELSE IF n.value >= 0 THEN SubSeq(lst, 1, Min({n.value, Len(lst)}))
    ELSE SubSeq(lst, 1, Max({Len(lst) + n.value, 0}))

SortAndLimit_LimitFirst(related_snippets, max_results) ==
    SortByScore(SliceTo(related_snippets, max_results))

\* related_snippets.sort(...); related_snippets[:request.max_results]
SortAndLimit(related_snippets, max_results) ==
    SliceTo(SortByScore(related_snippets), max_results)

\* detail=f"Analysis failed: {str(e)}" for the exception of the encode call
EncodeFailed == "Analysis failed: encode"

\* encode_raises: semantic_model.encode raises on the query (answered 500)
intelligent_analysis(request, encode_raises) ==
    /\ IF AnalysisUnavailable
       THEN response' = [op |-> "intelligent_analysis", status |-> 503]
       ELSE IF encode_raises
       THEN response' = [op |-> "intelligent_analysis", status |-> 500,
                         detail |-> EncodeFailed]
       ELSE LET query_embedding == semantic_model_encode(request.selected_text)
                related_snippets ==
                    SortAndLimit(CollectSnippets(document_sections, request,
                                                 query_embedding),
                                 request.max_results)
            IN  \E summary_path \in SummaryPaths, llm_text \in LlmTexts :
                    response' =
                        [op               |-> "intelligent_analysis",
                         status           |-> 200,
                         request          |-> request,
                         query_text       |-> request.selected_text,
                         related_snippets |-> related_snippets,
                         analysis_summary |->
                             generate_analysis_summary(related_snippets, summary_path,
                                                       llm_text)]
    /\ UNCHANGED <<uploads, pdf_documents, document_sections, section_embeddings,
                   ENHANCED_PDF_ANALYSIS, embed_failed>>

get_document_sections_EmptyIsMissing(document_id) ==
    /\ response' =
           IF /\ document_id \in DictKeys(document_sections)
              /\ DictGet(document_sections, document_id) # <<>>
           THEN [op          |-> "get_document_sections",
                 status      |-> 200,
                 document_id |-> document_id,
                 sections    |-> DictGet(document_sections, document_id)]
           ELSE [op          |-> "get_document_sections",
                 status      |-> 404,
                 document_id |-> document_id]
    /\ UNCHANGED <<uploads, pdf_documents, document_sections, section_embeddings,
                   ENHANCED_PDF_ANALYSIS, embed_failed>>

get_document_sections(document_id) ==
    /\ response' =
           IF document_id \in DictKeys(document_sections)
           THEN [op          |-> "get_document_sections",
                 status      |-> 200,
                 document_id |-> document_id,
                 sections    |-> DictGet(document_sections, document_id)]
           ELSE [op          |-> "get_document_sections",
                 status      |-> 404,
                 document_id |-> document_id]
    /\ UNCHANGED <<uploads, pdf_documents, document_sections, section_embeddings,
                   ENHANCED_PDF_ANALYSIS, embed_failed>>

Requests ==
    [selected_text : SelectedTexts,
     current_document_id : 0..MaxId,
     max_results : MaxResultsValues]

\* uvicorn's event loop runs one handler to its end (no handler awaits
\* anything that suspends), then the response leaves
ServerIdle == response.op = "none"

UploadPdf ==
    /\ ServerIdle
    /\ \E filename \in FileNames, pdf \in PdfPool, upload_type \in UploadTypes :
          upload_pdf(filename, pdf, upload_type)
    /\ UNCHANGED <<segmenter_vars, call_vars, loop_vars>>

DeleteDocument ==
    /\ ServerIdle
    /\ \E document_id \in 1..MaxId : delete_document(document_id)
    /\ UNCHANGED <<segmenter_vars, call_vars, loop_vars>>

ManualReload ==
    /\ ServerIdle
    /\ manual_reload
    /\ UNCHANGED <<segmenter_vars, call_vars, loop_vars>>

IntelligentAnalysis ==
    /\ ServerIdle
    /\ \E request \in Requests, encode_raises \in BOOLEAN :
          intelligent_analysis(request, encode_raises)
    /\ UNCHANGED <<segmenter_vars, call_vars, loop_vars>>

GetDocumentSections ==
    /\ ServerIdle
    /\ \E document_id \in 0..MaxId : get_document_sections(document_id)
    /\ UNCHANGED <<segmenter_vars, call_vars, loop_vars>>

SendResponse ==
    /\ ~ServerIdle
    /\ response' = [op |-> "none"]
    /\ UNCHANGED <<uploads, pdf_documents, document_sections, section_embeddings,
                   ENHANCED_PDF_ANALYSIS, embed_failed>>
    /\ UNCHANGED <<segmenter_vars, call_vars, loop_vars>>

Init ==
    /\ CorpusInit
    /\ all_blocks = <<>>
    /\ extracted = <<>>
    /\ phase = "idle"
    /\ call = NoCall
    /\ result = NoResult
    /\ LoopIdle

Next ==
    \/ UploadPdf
    \/ DeleteDocument
    \/ IntelligentAnalysis
    \/ GetDocumentSections
    \/ SendResponse

Spec == Init /\ [][Next]_vars

----------------------------------------------------------------------------
(* The library with its reloads: uploads, deletions, /reload, the document *)
(* listing, and files put into the uploads folder from outside.            *)

GetDocuments ==
    /\ ServerIdle
    /\ get_documents
    /\ UNCHANGED <<segmenter_vars, call_vars, loop_vars>>

\* a PDF file is copied into the uploads folder without the API
FolderGetsFile ==
    /\ ServerIdle
    /\ \E filename \in FileNames \ DOMAIN uploads, pdf \in PdfPool :
          /\ IsPdfName(filename)
          /\ uploads' = (filename :> pdf) @@ uploads
    /\ UNCHANGED <<pdf_documents, document_sections, section_embeddings,
                   ENHANCED_PDF_ANALYSIS, embed_failed, response>>
    /\ UNCHANGED <<segmenter_vars, call_vars, loop_vars>>

LibraryNext ==
    \/ UploadPdf
    \/ DeleteDocument
    \/ ManualReload
    \/ GetDocuments
    \/ FolderGetsFile
    \/ SendResponse

LibrarySpec == Init /\ [][LibraryNext]_vars

----------------------------------------------------------------------------
(* The library under uploads of either kind.                               *)

\* whether the encode call of a section raises, for the sections of each
\* file of a bulk upload
BulkFails(files) ==
    {fails \in [1..Len(files) -> SUBSET (1..2)] :
        \A i \in 1..Len(files) :
            /\ IsPdfName(files[i].filename) =>
                   fails[i] \subseteq 1..Len(ExtractedSections[files[i].pdf])
            /\ ~IsPdfName(files[i].filename) => fails[i] = {}}

BulkUploadPdfs ==
    /\ ServerIdle
    /\ \E files \in BulkFileLists : \E fails \in BulkFails(files) :
          bulk_upload_pdfs(files, fails)
    /\ UNCHANGED <<segmenter_vars, call_vars, loop_vars>>

UploadNext ==
    \/ UploadPdf
    \/ BulkUploadPdfs
    \/ DeleteDocument
    \/ SendResponse

UploadSpec == Init /\ [][UploadNext]_vars

----------------------------------------------------------------------------
(* The library when files vanish from the folder: serving a missing file   *)
(* cleans its document up, a reload re-reads what is left.                 *)

\* a file is removed from the uploads folder without the API
FolderLosesFile ==
    /\ ServerIdle
    /\ \E filename \in DOMAIN uploads :
          uploads' = [f \in DOMAIN uploads \ {filename} |-> uploads[f]]
    /\ UNCHANGED <<pdf_documents, document_sections, section_embeddings,
                   ENHANCED_PDF_ANALYSIS, embed_failed, response>>
    /\ UNCHANGED <<segmenter_vars, call_vars, loop_vars>>

ServePdf ==
    /\ ServerIdle
    /\ \E filename \in FileNames : serve_pdf(filename)
    /\ UNCHANGED <<segmenter_vars, call_vars, loop_vars>>

FolderNext ==
    \/ UploadPdf
    \/ DeleteDocument
    \/ ManualReload
    \/ ServePdf
    \/ FolderLosesFile
    \/ SendResponse

FolderSpec == Init /\ [][FolderNext]_vars

----------------------------------------------------------------------------
(* A run of the segmenter on its own: the collection loop appends one span *)
(* at a time, then the sections are extracted.                             *)

MaxSpans == 4

MaxPage == 2

SpanTexts == {T_Introduction, T_KeyFacts, T_Page2, T_CostRisk}

FontSizes == {12, 24}

LastPage == IF all_blocks = <<>> THEN 1 ELSE all_blocks[Len(all_blocks)].page

CorpusIdle ==
    /\ uploads = <<>>
    /\ pdf_documents = <<>>
    /\ document_sections = <<>>
    /\ section_embeddings = <<>>
    /\ ENHANCED_PDF_ANALYSIS = TRUE
    /\ embed_failed = {}
    /\ response = [op |-> "none"]

SegmenterInit ==
    /\ CorpusIdle
    /\ all_blocks = <<>>
    /\ extracted = <<>>
    /\ phase = "collect"
    /\ call = NoCall
    /\ result = NoResult
    /\ LoopIdle

CollectSpan ==
    /\ phase = "collect"
    /\ Len(all_blocks) < MaxSpans
    /\ \E text \in SpanTexts, font_size \in FontSizes, page \in LastPage..MaxPage :
          /\ page <= LastPage + 1
          /\ all_blocks' = Append(all_blocks, Span(text, font_size, page))
    /\ UNCHANGED <<extracted, phase>>
    /\ UNCHANGED <<corpus_vars, call_vars, loop_vars>>

SegmentCollected ==
    /\ phase = "collect"
    /\ extracted' = extract_pdf_sections(Pdf(all_blocks))
    /\ phase' = "done"
    /\ UNCHANGED all_blocks
    /\ UNCHANGED <<corpus_vars, call_vars, loop_vars>>

SegmenterNext == CollectSpan \/ SegmentCollected

SegmenterSpec == SegmenterInit /\ [][SegmenterNext]_vars

\* longer documents over fewer texts: a heading text and a body text
MaxLongSpans == 5

PlainTexts == {T_KeyFacts, T_CostRisk}

CollectPlainSpan ==
    /\ phase = "collect"
    /\ Len(all_blocks) < MaxLongSpans
    /\ \E text \in PlainTexts, font_size \in FontSizes, page \in LastPage..MaxPage :
          /\ page <= LastPage + 1
          /\ all_blocks' = Append(all_blocks, Span(text, font_size, page))
    /\ UNCHANGED <<extracted, phase>>
    /\ UNCHANGED <<corpus_vars, call_vars, loop_vars>>

LongSegmenterNext == CollectPlainSpan \/ SegmentCollected

LongSegmenterSpec == SegmenterInit /\ [][LongSegmenterNext]_vars

\* short one-page documents over more font sizes: around a body size of 12
\* the sizes fall below 1.1 (12), between 1.1 and 1.3 (14), between 1.3 and
\* 1.5 (16), on 1.5 (18) and on 2.0 (24)
MaxSizedSpans == 3

SizedTexts == {T_KeyFacts, T_AndRisk}

HeadingFontSizes == {12, 14, 16, 18, 24}

CollectSizedSpan ==
    /\ phase = "collect"
    /\ Len(all_blocks) < MaxSizedSpans
    /\ \E text \in SizedTexts, font_size \in HeadingFontSizes :
          all_blocks' = Append(all_blocks, Span(text, font_size, 1))
    /\ UNCHANGED <<extracted, phase>>
    /\ UNCHANGED <<corpus_vars, call_vars, loop_vars>>

SizedSegmenterNext == CollectSizedSpan \/ SegmentCollected

SizedSegmenterSpec == SegmenterInit /\ [][SizedSegmenterNext]_vars

\* one-page documents with noise: a heading text, a page-number line and a
\* one-word text, each in the body size or in the large size
MaxNoisySpans == 4

NoisyTexts == {T_KeyFacts, T_Page2, T_Introduction}

CollectNoisySpan ==
    /\ phase = "collect"
    /\ Len(all_blocks) < MaxNoisySpans
    /\ \E text \in NoisyTexts, font_size \in FontSizes :
          all_blocks' = Append(all_blocks, Span(text, font_size, 1))
    /\ UNCHANGED <<extracted, phase>>
    /\ UNCHANGED <<corpus_vars, call_vars, loop_vars>>

NoisySegmenterNext == CollectNoisySpan \/ SegmentCollected

NoisySegmenterSpec == SegmenterInit /\ [][NoisySegmenterNext]_vars

----------------------------------------------------------------------------
(* Direct calls of generate_snippet: the content is put together from      *)
(* chunks, then the snippet is generated.                                  *)

MaxChunks == 4

\* one long run of 50 letters
Run50 == [i \in 1..50 |-> "a"]

\* a fragment of exactly 10 characters
Word10 == <<"a","b","c","d","e","f","g","h","i","j">>

\* a fragment of 11 characters
Word11 == <<"a","b","c","d","e","f","g","h","i","j","k">>

\* the end of a sentence
Stop == <<".", " ">>

Chunks == {Run50, Word10, Word11, Stop}

SegmenterIdle ==
    /\ all_blocks = <<>>
    /\ extracted = <<>>
    /\ phase = "idle"

SnippetInit ==
    /\ CorpusIdle
    /\ SegmenterIdle
    /\ call = [fn |-> "generate_snippet", content |-> <<>>, chunks |-> 0]
    /\ result = NoResult
    /\ LoopIdle

AppendChunk ==
    /\ ~result.done
    /\ call.chunks < MaxChunks
    /\ \E chunk \in Chunks :
          call' = [call EXCEPT !.content = @ \o chunk, !.chunks = @ + 1]
    /\ UNCHANGED <<result, corpus_vars, segmenter_vars, loop_vars>>

GenerateSnippet ==
    /\ ~result.done
    /\ result' = Returns(generate_snippet(call.content))
    /\ UNCHANGED <<call, corpus_vars, segmenter_vars, loop_vars>>

SnippetNext == AppendChunk \/ GenerateSnippet

SnippetSpec == SnippetInit /\ [][SnippetNext]_vars

----------------------------------------------------------------------------
(* Direct calls of clean_text: the text is put together one character at a *)
(* time, then it is cleaned.                                               *)

MaxTextLen == 4

\* a word character, two kinds of whitespace, a character outside the kept
\* set and a kept punctuation mark
TextChars == {"a", " ", "\t", "&", "-"}

CleanInit ==
    /\ CorpusIdle
    /\ SegmenterIdle
    /\ call = [fn |-> "clean_text", text |-> <<>>]
    /\ result = NoResult
    /\ LoopIdle

AppendChar ==
    /\ ~result.done
    /\ Len(call.text) < MaxTextLen
    /\ \E c \in TextChars : call' = [call EXCEPT !.text = Append(@, c)]
    /\ UNCHANGED <<result, corpus_vars, segmenter_vars, loop_vars>>

CleanCall ==
    /\ ~result.done
    /\ result' = Returns(clean_text(call.text))
    /\ UNCHANGED <<call, corpus_vars, segmenter_vars, loop_vars>>

CleanNext == AppendChar \/ CleanCall

CleanSpec == CleanInit /\ [][CleanNext]_vars

----------------------------------------------------------------------------
(* Concurrent clients.  uvicorn.run serves the app on one event loop.  The  *)
(* handlers are coroutines: the loop executes one until it awaits          *)
(* something that suspends or returns.  upload_pdf awaits only             *)
(* process_document_for_intelligence, a coroutine that itself awaits       *)
(* nothing (extract_pdf_sections and semantic_model.encode are plain       *)
(* calls), so the loop stays inside the upload from its first statement to *)
(* its return; the steps below are the statements it goes through.         *)

MaxRequests == 3

\* what clients send: uploads of two file names and a query that is not
\* about a document of the library (current_document_id 0)
ClientRequests ==
    {[op |-> "upload_pdf", filename |-> f, pdf |-> PdfOf(f), upload_type |-> t] :
        f \in {F_a, F_b}, t \in UploadTypes}
    \cup
    {[op |-> "intelligent_analysis",
      request |-> [selected_text        |-> T_Risk,
                   current_document_id |-> 0,
                   max_results         |-> IntValue(DefaultMaxResults)]]}

ConcurrentInit ==
    /\ uploads = <<>>
    /\ pdf_documents = <<>>
    /\ document_sections = <<>>
    /\ section_embeddings = <<>>
    /\ ENHANCED_PDF_ANALYSIS = TRUE
    /\ embed_failed = {}
    /\ response = [op |-> "none"]
    /\ SegmenterIdle
    /\ call = NoCall
    /\ result = NoResult
    /\ LoopIdle

\* a client sends a request; it waits at the socket until the loop takes it
RequestArrives ==
    /\ Len(requests) < MaxRequests
    /\ \E r \in ClientRequests :
          requests' = Append(requests, [req |-> r, state |-> "waiting"])
    /\ UNCHANGED <<running, passes>>
    /\ UNCHANGED <<corpus_vars, segmenter_vars, call_vars>>

\* the loop is free to start the handler of a waiting request
LoopFree == running = NoHandler

\* upload_pdf up to the await: the duplicate check, the file, the record
StartUploadOf(i) ==
    LET r == requests[i].req
    IN  /\ LoopFree
        /\ requests[i].state = "waiting"
        /\ r.op = "upload_pdf"
        /\ IF AlreadyRegistered(uploads, pdf_documents, r.filename)
           THEN LET k == Min({j \in 1..Len(pdf_documents) :
                                 pdf_documents[j].filename = r.filename})
                IN  /\ pdf_documents' =
                           [pdf_documents EXCEPT ![k].upload_type = r.upload_type]
                    /\ response' = [op |-> "upload_pdf", status |-> 200]
                    /\ requests' = [requests EXCEPT ![i].state = "done"]
                    /\ UNCHANGED <<uploads, running, passes>>
           ELSE LET new_id == NewDocumentId(pdf_documents)
                IN  /\ uploads' = (r.filename :> r.pdf) @@ uploads
                    /\ pdf_documents' =
                           Append(pdf_documents,
                                  [id              |-> new_id,
                                   filename        |-> r.filename,
                                   indexed_content |-> FALSE,
                                   upload_type     |-> r.upload_type])
                    /\ IF ENHANCED_PDF_ANALYSIS
                       THEN /\ running' = [fn |-> "upload_pdf", req |-> i,
                                           document_id |-> new_id, pc |-> "extract",
                                           sections |-> <<>>, next |-> 1, failed |-> {}]
                            /\ passes' = passes \cup {[document_id |-> new_id, req |-> i]}
                            /\ UNCHANGED <<requests, response>>
                       ELSE /\ response' = [op |-> "upload_pdf", status |-> 200]
                            /\ requests' = [requests EXCEPT ![i].state = "done"]
                            /\ UNCHANGED <<running, passes>>
        /\ UNCHANGED <<document_sections, section_embeddings, ENHANCED_PDF_ANALYSIS,
                       embed_failed>>
        /\ UNCHANGED <<segmenter_vars, call_vars>>

StartUpload == \E i \in 1..Len(requests) : StartUploadOf(i)

\* sections = extract_pdf_sections(pdf_path)
ExtractSections ==
    /\ running.fn = "upload_pdf"
    /\ running.pc = "extract"
    /\ running' = [running EXCEPT
                      !.pc = "embed",
                      !.sections = ExtractedSections[requests[running.req].req.pdf]]
    /\ UNCHANGED <<requests, passes>>
    /\ UNCHANGED <<corpus_vars, segmenter_vars, call_vars>>

\* one turn of the embedding loop: encode the section, or skip it when
\* encode raises
EmbedSection ==
    /\ running.fn = "upload_pdf"
    /\ running.pc = "embed"
    /\ running.next <= Len(running.sections)
    /\ \E raises \in BOOLEAN :
          running' = [running EXCEPT
                         !.next = @ + 1,
                         !.failed = IF raises THEN @ \cup {running.next} ELSE @]
    /\ UNCHANGED <<requests, passes>>
    /\ UNCHANGED <<corpus_vars, segmenter_vars, call_vars>>

\* after the loop: the two stores, indexed_content, the response
StoreSections ==
    /\ running.fn = "upload_pdf"
    /\ running.pc = "embed"
    /\ running.next > Len(running.sections)
    /\ document_sections' =
           DictSet(document_sections, running.document_id, running.sections)
    /\ section_embeddings' =
           DictUpdate(section_embeddings,
                      NewEmbeddings(running.sections, running.failed))
    /\ embed_failed' =
           {e \in embed_failed : e[1] # running.document_id}
               \cup {<<running.document_id, running.sections[j].id>> :
                        j \in running.failed}
    /\ LET k == Min({j \in 1..Len(pdf_documents) :
                        pdf_documents[j].id = running.document_id})
       IN  pdf_documents' = [pdf_documents EXCEPT ![k].indexed_content = TRUE]
    /\ response' = [op |-> "upload_pdf", status |-> 200]
    /\ requests' = [requests EXCEPT ![running.req].state = "done"]
    /\ running' = NoHandler
    /\ UNCHANGED <<uploads, ENHANCED_PDF_ANALYSIS, passes>>
    /\ UNCHANGED <<segmenter_vars, call_vars>>

\* intelligent_analysis has no suspending await either: one step
HandleQueryOf(i) ==
    /\ LoopFree
    /\ requests[i].state = "waiting"
    /\ requests[i].req.op = "intelligent_analysis"
    /\ \E encode_raises \in BOOLEAN :
          intelligent_analysis(requests[i].req.request, encode_raises)
    /\ requests' = [requests EXCEPT ![i].state = "done"]
    /\ UNCHANGED <<running, passes>>
    /\ UNCHANGED <<segmenter_vars, call_vars>>

HandleQuery == \E i \in 1..Len(requests) : HandleQueryOf(i)

ConcurrentNext ==
    \/ RequestArrives
    \/ StartUpload
    \/ ExtractSections
    \/ EmbedSection
    \/ StoreSections
    \/ HandleQuery

ConcurrentSpec == ConcurrentInit /\ [][ConcurrentNext]_vars

----------------------------------------------------------------------------
(* Direct calls of determine_snippet_type.                                 *)

ClassifyQueries == {<<>>, T_Risk}

ClassifyContents == {T_RiskPays, T_Introduction}

ClassifyInit ==
    /\ CorpusIdle
    /\ SegmenterIdle
    /\ call \in [fn : {"determine_snippet_type"},
                  query_text : ClassifyQueries,
                  section_content : ClassifyContents,
                  similarity : Similarities]
    /\ result = NoResult
    /\ LoopIdle

Classify ==
    /\ ~result.done
    /\ result' = Returns(determine_snippet_type(call.query_text, call.section_content,
                                                 call.similarity))
    /\ UNCHANGED <<call, corpus_vars, segmenter_vars, loop_vars>>

ClassifyNext == Classify

ClassifySpec == ClassifyInit /\ [][ClassifyNext]_vars

----------------------------------------------------------------------------
(* Properties of the document library.                                     *)

OkAnalysis == response.op = "intelligent_analysis" /\ response.status = 200

Returned == response.related_snippets

\* the section ids held by the documents other than document_id
OtherSectionIds(document_id) ==
    UNION {SectionIds(document_sections[i].value) :
              i \in {j \in 1..Len(document_sections) :
                        document_sections[j].key # document_id}}

OwnSectionIds(document_id) ==
    IF document_id \in DictKeys(document_sections)
    THEN SectionIds(DictGet(document_sections, document_id))
    ELSE {}

\* C1: delete_document(D) removes every embedding of D's sections, leaves
\* every embedding that belongs to a section of another document in place,
\* and so shrinks the map by the number of D's embedded sections.
C1_DeleteRemovesExactlyOwnEmbeddings ==
    [][\A d \in 1..MaxId :
          (ServerIdle /\ HasDocWithId(pdf_documents, d) /\ delete_document(d)) =>
              /\ \A id \in OwnSectionIds(d) : id \notin DOMAIN section_embeddings'
              /\ \A id \in OtherSectionIds(d) \cap DOMAIN section_embeddings :
                    /\ id \in DOMAIN section_embeddings'
                    /\ section_embeddings'[id] = section_embeddings[id]
              /\ Cardinality(DOMAIN section_embeddings') =
                     Cardinality(DOMAIN section_embeddings)
                         - Cardinality(OwnSectionIds(d) \cap DOMAIN section_embeddings)
      ]_vars

\* C2: every section of every document in document_sections has an entry in
\* section_embeddings under its id, unless its own encode call failed when
\* its document was processed.
C2_EverySectionEmbeddedUnlessFailed ==
    \A i \in 1..Len(document_sections) :
        \A j \in 1..Len(document_sections[i].value) :
            LET section == document_sections[i].value[j]
            IN  \/ section.id \in DOMAIN section_embeddings
                \/ <<document_sections[i].key, section.id>> \in embed_failed

\* C3: no returned snippet has the document id the request names as its
\* current document.
C3_NeverReturnsCurrentDocument ==
    OkAnalysis =>
        \A i \in 1..Len(Returned) :
            Returned[i].document_id # response.request.current_document_id

\* the scores the sections of document doc_id get for the query of the last
\* request
ScoresOf(doc_id) ==
    LET sections == DictGet(document_sections, doc_id)
    IN  {cosine_similarity(semantic_model_encode(response.request.selected_text),
                           section_embeddings[sections[j].id]) :
            j \in {k \in 1..Len(sections) : sections[k].id \in DOMAIN section_embeddings}}

\* the current document of the request has a section that scores as relevant
\* and other documents' sections were returned
C3_Witness ==
    /\ OkAnalysis
    /\ Returned # <<>>
    /\ response.request.current_document_id \in DictKeys(document_sections)
    /\ HasDocWithId(pdf_documents, response.request.current_document_id)
    /\ \E sc \in ScoresOf(response.request.current_document_id) : sc > RelevanceFloor

\* C4: every returned snippet has a similarity above 0.3; a candidate at 0.3
\* or below is not returned.
C4_ScoresAboveFloor ==
    OkAnalysis =>
        \A i \in 1..Len(Returned) : Returned[i].similarity_score > RelevanceFloor

\* a snippet was returned while a section of a searched document scored
\* exactly 0.3
C4_Witness ==
    /\ OkAnalysis
    /\ Returned # <<>>
    /\ \E doc_id \in DictKeys(document_sections) :
          /\ doc_id # response.request.current_document_id
          /\ HasDocWithId(pdf_documents, doc_id)
          /\ RelevanceFloor \in ScoresOf(doc_id)

\* the candidates that pass exclusion and the relevance floor, as
\* (document id, section id, score)
Survivors ==
    {c \in UNION {{<<doc_id, sid, cosine_similarity(
                        semantic_model_encode(response.request.selected_text),
                        section_embeddings[sid])>> :
                      sid \in SectionIds(DictGet(document_sections, doc_id))
                                 \cap DOMAIN section_embeddings} :
                  doc_id \in DictKeys(document_sections)} :
        /\ c[1] # response.request.current_document_id
        /\ HasDocWithId(pdf_documents, c[1])
        /\ c[3] > RelevanceFloor}

ReturnedCandidates ==
    {<<Returned[i].document_id, Returned[i].section_id, Returned[i].similarity_score>> :
        i \in 1..Len(Returned)}

\* C5: the returned list is in non-increasing score order, and no surviving
\* candidate left out of it scores strictly higher than a returned one.
C5_SortedThenTruncated ==
    OkAnalysis =>
        /\ \A i \in 1..(Len(Returned) - 1) :
              Returned[i].similarity_score >= Returned[i + 1].similarity_score
        /\ \A c \in Survivors \ ReturnedCandidates :
              \A i \in 1..Len(Returned) : c[3] <= Returned[i].similarity_score

\* the survivors were collected out of score order, a higher-scoring one
\* after a lower-scoring one, and the limit left some of them out
C5_Witness ==
    /\ OkAnalysis
    /\ Returned # <<>>
    /\ Survivors \ ReturnedCandidates # {}
    /\ LET collected ==
               CollectSnippets(document_sections, response.request,
                               semantic_model_encode(response.request.selected_text))
       IN  \E i \in 1..Len(collected) : \E j \in (i + 1)..Len(collected) :
               collected[i].similarity_score < collected[j].similarity_score

\* C6: for every integer max_results of the request, negative ones and 0
\* included, at most max_results snippets are returned (an omitted
\* max_results counts as 5).
C6_AtMostMaxResults ==
    (OkAnalysis /\ response.request.max_results.kind = "int") =>
        Len(Returned) <= response.request.max_results.value

\* C7: a query with empty selected_text is rejected; it never gets a normal
\* (200) response.
C7_EmptyQueryRejected ==
    ~(OkAnalysis /\ response.query_text = <<>>)

\* C8: while ENHANCED_PDF_ANALYSIS is false every intelligent_analysis
\* request is answered 503, never with a successful response.
C8_UnavailableIs503 ==
    (response.op = "intelligent_analysis" /\ ~ENHANCED_PDF_ANALYSIS) =>
        response.status = 503

\* a request against a library that holds documents was answered 503
C8_Witness ==
    /\ response.op = "intelligent_analysis"
    /\ ~ENHANCED_PDF_ANALYSIS
    /\ response.status = 503
    /\ pdf_documents # <<>>

\* C12: a document whose PDF cannot be opened or parsed leaves no trace of
\* processing: it has no entry in document_sections and is not marked
\* indexed_content.
C12_UnreadableLeavesNoTrace ==
    \A i \in 1..Len(pdf_documents) :
        uploads[pdf_documents[i].filename] = UnreadablePdf =>
            /\ pdf_documents[i].id \notin DictKeys(document_sections)
            /\ ~pdf_documents[i].indexed_content

\* C13: a section whose embedding failed when its document was processed
\* stays in document_sections, the other sections of the document are
\* embedded, and the failed section is in no intelligent_analysis result.
C13_FailedSectionInvisible ==
    /\ \A e \in embed_failed :
          /\ e[1] \in DictKeys(document_sections)
          /\ e[2] \in SectionIds(DictGet(document_sections, e[1]))
          /\ \A id \in SectionIds(DictGet(document_sections, e[1])) :
                <<e[1], id>> \notin embed_failed => id \in DOMAIN section_embeddings
    /\ OkAnalysis =>
          \A i \in 1..Len(Returned) :
              <<Returned[i].document_id, Returned[i].section_id>> \notin embed_failed

\* no stored section embedding scores above 0.3 for the query of the last
\* request
NothingRelevant ==
    \A sid \in DOMAIN section_embeddings :
        cosine_similarity(semantic_model_encode(response.request.selected_text),
                          section_embeddings[sid]) <= RelevanceFloor

\* C17: when no stored section scores above 0.3 the snippet list is empty and
\* the summary is the fixed 'no related content' string; for a non-empty
\* snippet list the summary is a non-empty string.
C17_SummaryNeverEmpty ==
    OkAnalysis =>
        /\ NothingRelevant =>
              (Returned = <<>> /\ response.analysis_summary = NoRelatedContent)
        /\ Returned # <<>> => response.analysis_summary # ""

\* C18: get_document_sections(id) answers 404 exactly when the id has no
\* entry in document_sections and otherwise answers with the sections of
\* that entry in their stored order; an intelligent_analysis request is
\* answered with an error only when the analysis is unavailable or the
\* embedding of the query raises, never because its current_document_id has
\* no recorded sections.
C18_SectionsListing ==
    /\ response.op = "get_document_sections" =>
           IF response.document_id \in DictKeys(document_sections)
           THEN /\ response.status = 200
                /\ response.sections =
                       DictGet(document_sections, response.document_id)
           ELSE response.status = 404
    /\ (response.op = "intelligent_analysis" /\ response.status # 200) =>
           \/ response.status = 503 /\ ~ENHANCED_PDF_ANALYSIS
           \/ response.status = 500 /\ response.detail = EncodeFailed

\* the listing of a document with two sections was answered, and so was the
\* listing of an id with no entry
C18_Witness ==
    /\ response.op = "get_document_sections"
    /\ response.status = 200
    /\ Len(response.sections) >= 2
    /\ response.sections[1].page < response.sections[2].page

\* a query naming a current document without recorded sections was
\* answered 200 with snippets of the library
C18_WitnessQuery ==
    /\ OkAnalysis
    /\ Returned # <<>>
    /\ response.request.current_document_id \notin DictKeys(document_sections)

\* the section of document doc_id that has the id section_id
SectionOf(doc_id, section_id) ==
    LET sections == DictGet(document_sections, doc_id)
    IN  sections[CHOOSE j \in 1..Len(sections) : sections[j].id = section_id]

\* C19: the similarity reported for a section of a document is computed
\* from the embedding of that section's own content, whatever other
\* documents were processed or deleted.
C19_ScoreFromOwnContent ==
    OkAnalysis =>
        \A i \in 1..Len(Returned) :
            Returned[i].similarity_score =
                cosine_similarity(
                    semantic_model_encode(response.request.selected_text),
                    semantic_model_encode(
                        SectionOf(Returned[i].document_id,
                                  Returned[i].section_id).content))

\* C20: document_sections[id] holds the sections extracted from the file of
\* the document that carries that id in pdf_documents.
C20_SectionsBelongToCarrier ==
    \A i \in 1..Len(pdf_documents) :
        (/\ pdf_documents[i].id \in DictKeys(document_sections)
         /\ pdf_documents[i].filename \in DOMAIN uploads) =>
            DictGet(document_sections, pdf_documents[i].id) =
                ExtractedSections[uploads[pdf_documents[i].filename]]

\* C21: every key of document_sections is the id of a document in
\* pdf_documents, and every key of section_embeddings is the id of a section
\* of some document in document_sections.
C21_NoOrphans ==
    /\ DictKeys(document_sections) \subseteq DocIds(pdf_documents)
    /\ DOMAIN section_embeddings \subseteq
           UNION {SectionIds(document_sections[i].value) :
                     i \in 1..Len(document_sections)}

----------------------------------------------------------------------------
(* Properties of the segmenter.                                            *)

\* the collected document is one span at 24 pt followed by three at 12 pt
HeadingAndThreeBodies ==
    /\ phase = "done"
    /\ Len(all_blocks) = 4
    /\ all_blocks[1].font_size = 24
    /\ \A i \in 2..4 : all_blocks[i].font_size = 12

\* C9 as stated: the span "Introduction" at 24 pt followed by three body spans
\* at 12 pt gives exactly one section, titled "Introduction", of level H1,
\* whose content is the three body spans joined by single spaces.
C9_IntroductionIsOneSection ==
    (HeadingAndThreeBodies /\ all_blocks[1].text = T_Introduction) =>
        /\ Len(extracted) = 1
        /\ extracted[1].title = T_Introduction
        /\ extracted[1].level = "H1"
        /\ extracted[1].content =
               JoinSpace(<<all_blocks[2].text, all_blocks[3].text, all_blocks[4].text>>)

\* the cleaned texts of the spans 2..4 that are not generic noise
CleanedBodies ==
    LET kept == {i \in 2..4 : ~is_generic_text(all_blocks[i].text)}
    IN  FilterSeq([i \in 1..4 |-> clean_text(all_blocks[i].text)], kept)

\* C9 amended: a span at 24 pt followed by three spans at 12 pt gives no
\* section when the first span has a single token (as "Introduction" has) or
\* is generic noise or no body span is left after the noise filter; otherwise
\* it gives exactly one section of level H1, titled with the cleaned first
\* span, whose content is the cleaned non-generic body spans joined by
\* single spaces.
C9_HeadingNeedsTwoTokens ==
    HeadingAndThreeBodies =>
        IF /\ NumTokens(all_blocks[1].text) >= 2
           /\ ~is_generic_text(all_blocks[1].text)
           /\ CleanedBodies # <<>>
        THEN /\ Len(extracted) = 1
             /\ extracted[1].title = clean_text(all_blocks[1].text)
             /\ extracted[1].level = "H1"
             /\ extracted[1].page = all_blocks[1].page
             /\ extracted[1].content = Strip(JoinSpace(CleanedBodies))
        ELSE extracted = <<>>

\* the two-token heading "Key Facts" with three body spans gave one section
C9_Witness ==
    /\ HeadingAndThreeBodies
    /\ all_blocks[1].text = T_KeyFacts
    /\ \A i \in 2..4 : all_blocks[i].text = T_Introduction
    /\ Len(extracted) = 1

\* the heading spans of the collected document, by index
HeadingIndices ==
    IF all_blocks = <<>> THEN {}
    ELSE LET body_size == MostCommon([i \in 1..Len(all_blocks) |-> all_blocks[i].font_size])
         IN  {i \in 1..Len(all_blocks) :
                 /\ 10 * all_blocks[i].font_size > 11 * body_size
                 /\ NumTokens(all_blocks[i].text) >= 2
                 /\ ~is_generic_text(all_blocks[i].text)}

\* the spans between heading i and the next heading (or the end)
SpansUnder(i) ==
    {j \in (i + 1)..Len(all_blocks) : \A h \in HeadingIndices : h <= i \/ h > j}

\* heading i is followed at once by a heading, by the end, or by generic
\* noise only
IsBare(i) == \A j \in SpansUnder(i) : is_generic_text(all_blocks[j].text)

\* the id the segmenter gives the section of heading i
IdOfHeading(i) ==
    <<Cardinality({h \in HeadingIndices : h <= i}), all_blocks[i].page>>

\* C10: no emitted section has empty content; a heading followed at once by
\* another heading, by the end of the document, or only by generic-noise
\* spans produces no section.
C10_NoEmptySection ==
    phase = "done" =>
        /\ \A k \in 1..Len(extracted) : extracted[k].content # <<>>
        /\ \A i \in HeadingIndices :
              IsBare(i) => \A k \in 1..Len(extracted) : extracted[k].id # IdOfHeading(i)

\* a bare heading was dropped while another heading's section was emitted
C10_Witness ==
    /\ phase = "done"
    /\ extracted # <<>>
    /\ \E i \in HeadingIndices : IsBare(i)

\* C14: within one document every section returned by extract_pdf_sections
\* has an id different from the id of every other section of the document.
C14_SectionIdsDistinct ==
    phase = "done" =>
        \A i \in 1..Len(extracted) : \A j \in 1..Len(extracted) :
            i # j => extracted[i].id # extracted[j].id

\* two sections of one page were returned
C14_Witness ==
    /\ phase = "done"
    /\ Len(extracted) >= 2
    /\ extracted[1].page = extracted[2].page

----------------------------------------------------------------------------
(* Properties of the snippets.                                             *)

\* C11: generate_snippet applied to content that has none of . ! ? and is
\* longer than 150 characters returns the first 150 characters of the
\* content followed by "...".
C11_LongRunFallsBackTo150 ==
    (/\ result.done
     /\ Len(call.content) > FallbackSnippetLen
     /\ \A i \in 1..Len(call.content) : ~IsTerminator(call.content[i])) =>
        result.value = SubSeq(call.content, 1, FallbackSnippetLen) \o Ellipsis

\* C16: whatever the candidate text and the query text are, a similarity
\* above 0.7 is classified as supporting, also when the candidate text holds
\* contradiction vocabulary.
C16_HighSimilarityIsSupporting ==
    (result.done /\ call.similarity > SupportingAbove) =>
        result.value = "supporting"

\* a candidate holding the word "never" was classified at similarity 0.85 for
\* a query that has a word
C16_Witness ==
    /\ result.done
    /\ call.similarity = 85
    /\ call.section_content = T_RiskPays
    /\ call.query_text = T_Risk
    /\ ContainsWord(Lower(call.section_content), <<"n","e","v","e","r">>)

\* C25: a candidate with similarity at most 0.7 is classified contradictory
\* exactly when its text contains contradiction vocabulary and the similarity
\* is above 0.4, for every query text; otherwise it is classified related.
C25_ContradictoryByVocabulary ==
    (result.done /\ call.similarity <= SupportingAbove) =>
        LET has_vocabulary ==
                \E w \in ContradictionWords :
                    ContainsWord(Lower(call.section_content), w)
        IN  IF has_vocabulary /\ call.similarity > ContradictoryAbove
            THEN result.value = "contradictory"
            ELSE result.value = "related"

\* C26: generate_snippet discards exactly the fragments whose trimmed length
\* is below 10 (a fragment of exactly 10 characters is kept); when fragments
\* remain it returns at most the first 4 of them joined by ". ", and the
\* result ends with a period.
C26_KeepsFragmentsOfTenOrMore ==
    result.done =>
        LET pieces == SplitSentences(call.content, 1)
            remaining ==
                FilterSeq([i \in 1..Len(pieces) |-> Strip(pieces[i])],
                          {i \in 1..Len(pieces) : Len(Strip(pieces[i])) >= 10})
        IN  remaining # <<>> =>
                result.value =
                    JoinWith(SubSeq(remaining, 1, Min({4, Len(remaining)})),
                             <<".", " ">>) \o <<".">>

\* C27: the output of clean_text has no leading or trailing whitespace, no
\* run of two or more whitespace characters, and only word characters,
\* whitespace and the punctuation - . , ; : ! ? ( ); cleaning the output
\* again returns it unchanged.
C27_CleanTextIsNormalForm ==
    result.done =>
        LET out == result.value
        IN  /\ out # <<>> => ~IsSpace(out[1]) /\ ~IsSpace(out[Len(out)])
            /\ \A i \in 1..(Len(out) - 1) : ~(IsSpace(out[i]) /\ IsSpace(out[i + 1]))
            /\ \A i \in 1..Len(out) :
                  \/ IsWordChar(out[i])
                  \/ IsSpace(out[i])
                  \/ out[i] \in {"-", ".", ",", ";", ":", "!", "?", "(", ")"}
            /\ clean_text(out) = out

----------------------------------------------------------------------------
(* Uploading what is already there.                                        *)

\* the file is in the folder and a document of that name is in the list
IsRegistered(filename) ==
    /\ filename \in DOMAIN uploads
    /\ \E k \in 1..Len(pdf_documents) : pdf_documents[k].filename = filename

\* nothing changes but, possibly, the upload_type of documents named in names
OnlyUploadTypeChanges(names) ==
    /\ Len(pdf_documents') = Len(pdf_documents)
    /\ \A k \in 1..Len(pdf_documents) :
          /\ pdf_documents'[k].id = pdf_documents[k].id
          /\ pdf_documents'[k].filename = pdf_documents[k].filename
          /\ pdf_documents'[k].indexed_content = pdf_documents[k].indexed_content
          /\ pdf_documents'[k].upload_type # pdf_documents[k].upload_type =>
                 pdf_documents[k].filename \in names
    /\ uploads' = uploads
    /\ document_sections' = document_sections
    /\ section_embeddings' = section_embeddings

\* a single upload of a registered file name
ReuploadStep ==
    \E filename \in FileNames, pdf \in PdfPool, upload_type \in UploadTypes :
        /\ IsRegistered(filename)
        /\ upload_pdf(filename, pdf, upload_type)

\* a bulk upload of registered file names only (no encode call raises)
BulkReuploadStep ==
    \E files \in BulkFileLists \ {<<>>} :
        /\ \A i \in 1..Len(files) : IsRegistered(files[i].filename)
        /\ bulk_upload_pdfs(files, [i \in 1..Len(files) |-> {}])

----------------------------------------------------------------------------
(* Properties of concurrent uploads.                                       *)

\* the processing passes that have started and not yet stored their result
PassesInFlight ==
    IF running.fn = "upload_pdf"
    THEN {p \in passes : p.req = running.req}
    ELSE {}

\* C28: however the uploads of concurrent clients interleave (two of them
\* may carry the same file name), at most one processing pass is in flight
\* for a document id, and at most one pass ever writes the sections and
\* embeddings of a document id.
C28_OnePassPerDocumentId ==
    \A id \in {p.document_id : p \in passes} :
        /\ Cardinality({p \in PassesInFlight : p.document_id = id}) <= 1
        /\ Cardinality({p \in passes : p.document_id = id}) <= 1

\* two uploads of one file name and an upload of another were all served
C28_Witness ==
    /\ Len(requests) = 3
    /\ \A i \in 1..3 : requests[i].state = "done" /\ requests[i].req.op = "upload_pdf"
    /\ requests[1].req.filename = requests[2].req.filename
    /\ requests[3].req.filename # requests[1].req.filename
    /\ Cardinality(passes) = 2

\* the embedding loop of an upload is being executed
EmbeddingInProgress ==
    /\ running.fn = "upload_pdf"
    /\ running.pc = "embed"

\* C29: while the embedding pass of a document is in progress, a waiting
\* upload or query can be taken up; it does not wait for the pass to end.
C29_EmbeddingDoesNotBlock ==
    \A i \in 1..Len(requests) :
        (EmbeddingInProgress /\ requests[i].state = "waiting") =>
            ENABLED (StartUploadOf(i) \/ HandleQueryOf(i))

----------------------------------------------------------------------------
(* Further properties of the segmenter.                                    *)

\* the headings whose section is emitted, and the k-th of them
EmittingHeadings == {i \in HeadingIndices : ~IsBare(i)}

EmittingHeading(k) ==
    CHOOSE i \in EmittingHeadings :
        Cardinality({h \in EmittingHeadings : h <= i}) = k

\* the cleaned texts of the non-generic spans under heading i, in span order
FragmentsUnder(i) ==
    FilterSeq([j \in 1..Len(all_blocks) |-> clean_text(all_blocks[j].text)],
              {j \in SpansUnder(i) : ~is_generic_text(all_blocks[j].text)})

\* C22: the emitted sections are, in reading order, those of the headings
\* that have a non-generic span under them, and the content of each is
\* exactly the cleaned texts of the non-generic spans between its heading and
\* the next heading (or the end), in span order, joined by single spaces;
\* the spans before the first heading are in no section.
C22_ContentIsJoinedSpans ==
    phase = "done" =>
        /\ Len(extracted) = Cardinality(EmittingHeadings)
        /\ \A k \in 1..Len(extracted) :
              /\ extracted[k].title = clean_text(all_blocks[EmittingHeading(k)].text)
              /\ extracted[k].content = JoinSpace(FragmentsUnder(EmittingHeading(k)))

\* C23: a span opens a section (takes the next section number) exactly when
\* its font size exceeds 1.1 times the body size, it has at least two tokens
\* and it is not generic noise: the emitted sections carry the numbers and
\* pages of exactly those spans that have content under them; a generic
\* span, whatever its font size, is no heading and adds nothing to a content.
C23_OpensSectionIffHeading ==
    phase = "done" =>
        /\ Len(extracted) = Cardinality(EmittingHeadings)
        /\ \A k \in 1..Len(extracted) :
              /\ extracted[k].id = IdOfHeading(EmittingHeading(k))
              /\ extracted[k].font_size = all_blocks[EmittingHeading(k)].font_size
              /\ extracted[k].content =
                     Strip(JoinSpace(FragmentsUnder(EmittingHeading(k))))

\* a section was emitted with a span under its heading that is generic noise
\* in the large font
C23_Witness ==
    /\ phase = "done"
    /\ extracted # <<>>
    /\ \E i \in EmittingHeadings : \E j \in SpansUnder(i) :
          /\ is_generic_text(all_blocks[j].text)
          /\ all_blocks[j].font_size = 24

\* the body size of the collected document (0 for a document without spans)
BodySize ==
    IF all_blocks = <<>> THEN 0
    ELSE MostCommon([i \in 1..Len(all_blocks) |-> all_blocks[i].font_size])

\* C24: the level of every emitted section follows the ratio of its heading's
\* font size to the body size: H1 from 2.0, H2 from 1.5, H3 from 1.3, H4
\* below; H4 is given exactly to the ratios strictly between 1.1 and 1.3.
C24_LevelByRatio ==
    phase = "done" =>
        \A k \in 1..Len(extracted) :
            LET fs == extracted[k].font_size
                level == extracted[k].level
            IN  /\ (level = "H1") = (10 * fs >= 20 * BodySize)
                /\ (level = "H2") = (10 * fs >= 15 * BodySize /\ 10 * fs < 20 * BodySize)
                /\ (level = "H3") = (10 * fs >= 13 * BodySize /\ 10 * fs < 15 * BodySize)
                /\ (level = "H4") = (10 * fs > 11 * BodySize /\ 10 * fs < 13 * BodySize)

\* a section of level H4 was emitted for a heading of 14 pt over a body of 12
C24_Witness ==
    /\ phase = "done"
    /\ BodySize = 12
    /\ \E k \in 1..Len(extracted) :
          extracted[k].level = "H4" /\ extracted[k].font_size = 14

====
